---- MODULE Spec2Model ----
(***************************************************************************)
(* Model of llmagent/vector_store/qdrantdb.py: the QdrantDB adapter, the   *)
(* external vector store it talks to (collections of points), and the      *)
(* embedding provider it calls.  Every public method of QdrantDB is one    *)
(* action; `last` records what the most recent call was given, which       *)
(* external calls it issued (in order), and what it returned or raised.    *)
(***************************************************************************)
EXTENDS Integers, Sequences, FiniteSets, TLC

\* ------------------------------------------------------------------ bounds
MaxK == 2                \* requested result counts are 1..MaxK
MaxBatch == 1            \* ingested document lists hold 0..MaxBatch documents

Names == {"docs", "notes"}            \* collection names callers use
Metas == {"m1", "m2"}                 \* metadata values a Document may carry
Dims == {2, 3}                        \* embedding dimensionalities of the providers
Adapters == {"A"}                     \* the caller's adapter variables; QdrantDB_init
                                      \* binds a variable to a newly built adapter
Contents == {1, 2}                    \* document contents and query texts

None == "None"
Docs == [content : Contents, meta : Metas]
DocSeqs == UNION {[1..n -> Docs] : n \in 0..MaxBatch}
Wheres == {None, "m1"}                \* `where`: no filter, or "meta equals m1"

VARIABLES store, adapter, last
vars == <<store, adapter, last>>

\* ------------------------------------------------- the external collaborators
NoPoints == [i \in {} |-> [vector |-> <<>>, payload |-> [content |-> 1, meta |-> "m1"]]]
NoCollection == [exists |-> FALSE, dim |-> 0, points |-> NoPoints]
EmptyStore == [n \in Names |-> NoCollection]

PointsCount(st, name) == Cardinality(DOMAIN st[name].points)

\* the embedding provider: one unit vector of the provider's dimension per text
Embed(text, dim) == [j \in 1..dim |-> IF j = ((text - 1) % dim) + 1 THEN 1 ELSE 0]
EmbeddingFn(texts, dim) == [i \in 1..Len(texts) |-> Embed(texts[i], dim)]

\* the content hash the adapter uses as storage key
UniqueHashId(doc) == (doc.content * 7 + 3) % 11

RECURSIVE SetToSeq(_)
SetToSeq(S) ==
  IF S = {} THEN <<>>
  ELSE LET x == CHOOSE y \in S : TRUE IN <<x>> \o SetToSeq(S \ {x})

\* client.get_collections(): the names of the collections present
ClientGetCollections(st) == SetToSeq({n \in Names : st[n].exists})

\* client.recreate_collection(name, size, distance): drop and create empty
ClientRecreate(st, name, dim) ==
  [st EXCEPT ![name] = [exists |-> TRUE, dim |-> dim, points |-> NoPoints]]

\* client.delete_collection(name)
ClientDelete(st, name) == [st EXCEPT ![name] = NoCollection]

\* client.upsert(name, Batch(ids, vectors, payloads)): a later entry of the
\* batch with the same id wins; the service rejects the whole batch when the
\* collection is missing or a vector has the wrong size
ClientUpsert(st, name, ids, vecs, payloads) ==
  IF ~st[name].exists \/ \E i \in 1..Len(vecs) : Len(vecs[i]) # st[name].dim
  THEN [err |-> "ServiceError", store |-> st]
  ELSE LET old == st[name].points
           new == {ids[i] : i \in 1..Len(ids)}
           lastIx(id) == CHOOSE i \in 1..Len(ids) :
                           ids[i] = id /\ \A j \in 1..Len(ids) : ids[j] = id => j <= i
           pts == [id \in DOMAIN old \cup new |->
                     IF id \in new
                     THEN [vector |-> vecs[lastIx(id)], payload |-> payloads[lastIx(id)]]
                     ELSE old[id]]
       IN [err |-> "ok", store |-> [st EXCEPT ![name].points = pts]]

RECURSIVE Dot(_, _)
Dot(u, v) == IF u = <<>> THEN 0 ELSE Head(u) * Head(v) + Dot(Tail(u), Tail(v))

FilterMatches(where, payload) == where = None \/ payload.meta = where

RECURSIVE Ranked(_, _, _)
Ranked(pts, ids, q) ==
  IF ids = {} THEN <<>>
  ELSE LET best == CHOOSE i \in ids : \A j \in ids :
                     \/ Dot(q, pts[i].vector) > Dot(q, pts[j].vector)
                     \/ Dot(q, pts[i].vector) = Dot(q, pts[j].vector) /\ i <= j
       IN <<[id |-> best, score |-> Dot(q, pts[best].vector), payload |-> pts[best].payload]>>
            \o Ranked(pts, ids \ {best}, q)

\* client.search(name, query_vector, query_filter, limit): the limit best
\* matches, best first; rejected when the collection is missing or the query
\* vector has the wrong size
ClientSearch(st, name, q, where, k) ==
  IF ~st[name].exists \/ Len(q) # st[name].dim
  THEN [err |-> "ServiceError", matches |-> <<>>]
  ELSE LET pts == st[name].points
           hit == {i \in DOMAIN pts : FilterMatches(where, pts[i].payload)}
           all == Ranked(pts, hit, q)
       IN [err |-> "ok",
           matches |-> SubSeq(all, 1, IF Len(all) < k THEN Len(all) ELSE k)]

\* ------------------------------------------------------------- observations
NoCall == [op |-> "none", adapter |-> None, name |-> None, docs |-> <<>>, k |-> 0,
           result |-> "ok", calls |-> <<>>, status |-> None, pre |-> -1,
           n_deletes |-> 0, names |-> <<>>, pairs |-> <<>>]

Pre(st, name) == IF name = None THEN -1
                 ELSE IF st[name].exists THEN PointsCount(st, name) ELSE -1

NoAdapter == [constructed |-> FALSE, collection_name |-> None, embedding_dim |-> 0]

Init ==
  /\ store = EmptyStore
  /\ adapter = [a \in Adapters |-> NoAdapter]
  /\ last = NoCall

\* --------------------------------------------------------------- operations
Statuses == {"green", "yellow"}       \* CollectionStatus the service may report

\* QdrantDB.list_collections
ListCollections(st) == ClientGetCollections(st)

list_collections(a) ==
  /\ adapter[a].constructed
  /\ last' = [NoCall EXCEPT !.op = "list_collections", !.adapter = a,
                !.calls = <<"get_collections">>, !.names = ListCollections(store)]
  /\ UNCHANGED <<store, adapter>>

\* QdrantDB.create_collection, lines 90-96: the store after recreate_collection
CreateCollection(st, name, dim) == ClientRecreate(st, name, dim)

\* mutant: the status assertion of line 98 is missing
CreateAssertsNoStatus(status, vectors_count) ==
  IF vectors_count = 0 THEN "ok" ELSE "AssertionError"

\* QdrantDB.create_collection, lines 97-99: the two assertions on get_collection
CreateAsserts(status, vectors_count) ==
  IF status = "green" /\ vectors_count = 0 THEN "ok" ELSE "AssertionError"

CreateCalls == <<"recreate_collection", "get_collection">>

create_collection(a, name, reported) ==
  /\ adapter[a].constructed
  /\ \E status \in reported :
       LET st2 == CreateCollection(store, name, adapter[a].embedding_dim) IN
       /\ store' = st2
       /\ adapter' = [adapter EXCEPT ![a].collection_name = name]
       /\ last' = [NoCall EXCEPT !.op = "create_collection", !.adapter = a, !.name = name,
                     !.pre = Pre(store, name), !.status = status, !.calls = CreateCalls,
                     !.result = CreateAsserts(status, PointsCount(st2, name))]

\* QdrantDB.__init__: a new adapter object is built from a configuration; when
\* the constructor raises, the caller's variable keeps what it held
QdrantDB_init(a, reported) ==
  \E name \in Names \cup {None}, dim \in Dims, status \in reported :
    LET st2 == IF name = None THEN store ELSE CreateCollection(store, name, dim)
        res == IF name = None THEN "ok" ELSE CreateAsserts(status, PointsCount(st2, name))
    IN
    /\ store' = st2
    /\ adapter' = IF res = "ok"
                  THEN [adapter EXCEPT ![a] = [constructed |-> TRUE,
                                               collection_name |-> name,
                                               embedding_dim |-> dim]]
                  ELSE adapter
    /\ last' = [NoCall EXCEPT !.op = "init", !.adapter = a, !.name = name,
                  !.pre = Pre(store, name),
                  !.status = IF name = None THEN None ELSE status,
                  !.calls = IF name = None THEN <<>> ELSE CreateCalls,
                  !.result = res]

\* mutant: the membership test of line 85 is missing, the collection is always recreated
set_collection_recreates(a, name, reported) ==
  /\ adapter[a].constructed
  /\ \E status \in reported :
       LET st2 == CreateCollection(store, name, adapter[a].embedding_dim) IN
       /\ store' = st2
       /\ adapter' = [adapter EXCEPT ![a].collection_name = name]
       /\ last' = [NoCall EXCEPT !.op = "set_collection", !.adapter = a, !.name = name,
                     !.pre = Pre(store, name), !.status = status,
                     !.calls = <<"get_collections">> \o CreateCalls,
                     !.result = CreateAsserts(status, PointsCount(st2, name))]

\* QdrantDB.set_collection
set_collection(a, name, reported) ==
  /\ adapter[a].constructed
  /\ \E status \in reported :
       LET absent == \A i \in 1..Len(ListCollections(store)) : ListCollections(store)[i] # name
           st2 == IF absent THEN CreateCollection(store, name, adapter[a].embedding_dim)
                  ELSE store
       IN
       /\ store' = st2
       /\ adapter' = [adapter EXCEPT ![a].collection_name = name]
       /\ last' = [NoCall EXCEPT !.op = "set_collection", !.adapter = a, !.name = name,
                     !.pre = Pre(store, name),
                     !.status = IF absent THEN status ELSE None,
                     !.calls = IF absent THEN <<"get_collections">> \o CreateCalls
                               ELSE <<"get_collections">>,
                     !.result = IF absent THEN CreateAsserts(status, PointsCount(st2, name))
                                ELSE "ok"]

\* mutant: the points_count test of line 74 is missing, every collection is deleted
RECURSIVE ClearEmptyLoopAll(_, _, _, _)
ClearEmptyLoopAll(st, coll_names, n_deletes, calls) ==
  IF coll_names = <<>> THEN [store |-> st, n_deletes |-> n_deletes, calls |-> calls]
  ELSE ClearEmptyLoopAll(ClientDelete(st, Head(coll_names)), Tail(coll_names), n_deletes + 1,
                         calls \o <<"get_collection", "delete_collection">>)

\* QdrantDB.clear_empty_collections, the loop of lines 72-76 over coll_names
RECURSIVE ClearEmptyLoop(_, _, _, _)
ClearEmptyLoop(st, coll_names, n_deletes, calls) ==
  IF coll_names = <<>> THEN [store |-> st, n_deletes |-> n_deletes, calls |-> calls]
  ELSE LET name == Head(coll_names) IN
       IF PointsCount(st, name) = 0
       THEN ClearEmptyLoop(ClientDelete(st, name), Tail(coll_names), n_deletes + 1,
                           calls \o <<"get_collection", "delete_collection">>)
       ELSE ClearEmptyLoop(st, Tail(coll_names), n_deletes, calls \o <<"get_collection">>)

clear_empty_collections(a) ==
  /\ adapter[a].constructed
  /\ LET r == ClearEmptyLoop(store, ListCollections(store), 0, <<"get_collections">>) IN
     /\ store' = r.store
     /\ last' = [NoCall EXCEPT !.op = "clear_empty_collections", !.adapter = a,
                   !.n_deletes = r.n_deletes, !.calls = r.calls]
  /\ UNCHANGED adapter

\* mutant: deletes the active collection instead of the named one
delete_collection_active(a, name) ==
  /\ adapter[a].constructed
  /\ store' = IF adapter[a].collection_name = None THEN store
              ELSE ClientDelete(store, adapter[a].collection_name)
  /\ last' = [NoCall EXCEPT !.op = "delete_collection", !.adapter = a, !.name = name,
                !.pre = Pre(store, name), !.calls = <<"delete_collection">>]
  /\ UNCHANGED adapter

\* mutant: forgets the active collection name when the active collection is deleted
delete_collection_resets(a, name) ==
  /\ adapter[a].constructed
  /\ store' = ClientDelete(store, name)
  /\ adapter' = IF adapter[a].collection_name = name
                THEN [adapter EXCEPT ![a].collection_name = None] ELSE adapter
  /\ last' = [NoCall EXCEPT !.op = "delete_collection", !.adapter = a, !.name = name,
                !.pre = Pre(store, name), !.calls = <<"delete_collection">>]

\* QdrantDB.delete_collection
delete_collection(a, name) ==
  /\ adapter[a].constructed
  /\ store' = ClientDelete(store, name)
  /\ last' = [NoCall EXCEPT !.op = "delete_collection", !.adapter = a, !.name = name,
                !.pre = Pre(store, name), !.calls = <<"delete_collection">>]
  /\ UNCHANGED adapter

\* mutant: the storage key is derived from the whole document, metadata included
AddDocumentsDocHash(st, collection_name, dim, documents) ==
  LET embedding_vecs == EmbeddingFn([i \in 1..Len(documents) |-> documents[i].content], dim)
  IN
  IF collection_name = None
  THEN [store |-> st, result |-> "ValueError", calls |-> <<"embedding_fn">>]
  ELSE LET ids == [i \in 1..Len(documents) |->
                     UniqueHashId(documents[i]) + (IF documents[i].meta = "m1" THEN 0 ELSE 11)]
           up == ClientUpsert(st, collection_name, ids, embedding_vecs, documents)
       IN [store |-> up.store, result |-> up.err, calls |-> <<"embedding_fn", "upsert">>]

\* QdrantDB.add_documents: what the call does to the store, which external
\* calls it issues and how it ends
AddDocuments(st, collection_name, dim, documents) ==
  LET embedding_vecs == EmbeddingFn([i \in 1..Len(documents) |-> documents[i].content], dim)
  IN
  IF collection_name = None
  THEN [store |-> st, result |-> "ValueError", calls |-> <<"embedding_fn">>]
  ELSE LET ids == [i \in 1..Len(documents) |-> UniqueHashId(documents[i])]
           up == ClientUpsert(st, collection_name, ids, embedding_vecs, documents)
       IN [store |-> up.store, result |-> up.err, calls |-> <<"embedding_fn", "upsert">>]

add_documents(a, documents) ==
  /\ adapter[a].constructed
  /\ LET r == AddDocuments(store, adapter[a].collection_name,
                           adapter[a].embedding_dim, documents) IN
     /\ store' = r.store
     /\ last' = [NoCall EXCEPT !.op = "add_documents", !.adapter = a,
                   !.name = adapter[a].collection_name, !.docs = documents,
                   !.pre = Pre(store, adapter[a].collection_name),
                   !.calls = r.calls, !.result = r.result]
  /\ UNCHANGED adapter

\* QdrantDB.similar_texts_with_scores
Zip(docs, scores) ==
  [i \in 1..(IF Len(docs) < Len(scores) THEN Len(docs) ELSE Len(scores)) |->
     [doc |-> docs[i], score |-> scores[i]]]

\* mutant: the check of lines 132-133 is missing and the failed search is swallowed
SimilarTextsWithScoresNoCheck(st, collection_name, dim, text, k, where) ==
  LET embedding == EmbeddingFn(<<text>>, dim)[1] IN
  IF collection_name = None
  THEN [result |-> "ok", pairs |-> <<>>, calls |-> <<"embedding_fn", "search">>]
  ELSE LET found == ClientSearch(st, collection_name, embedding, where, k)
           search_result == found.matches
           scores == [i \in 1..Len(search_result) |-> search_result[i].score]
           docs == [i \in 1..Len(search_result) |-> search_result[i].payload]
       IN [result |-> found.err,
           pairs |-> IF found.err # "ok" \/ Len(docs) = 0 THEN <<>> ELSE Zip(docs, scores),
           calls |-> <<"embedding_fn", "search">>]

SimilarTextsWithScores(st, collection_name, dim, text, k, where) ==
  LET embedding == EmbeddingFn(<<text>>, dim)[1] IN
  IF collection_name = None
  THEN [result |-> "ValueError", pairs |-> <<>>, calls |-> <<"embedding_fn">>]
  ELSE LET found == ClientSearch(st, collection_name, embedding, where, k)
           search_result == found.matches
           scores == [i \in 1..Len(search_result) |-> search_result[i].score]
           docs == [i \in 1..Len(search_result) |-> search_result[i].payload]
       IN [result |-> found.err,
           pairs |-> IF found.err # "ok" \/ Len(docs) = 0 THEN <<>> ELSE Zip(docs, scores),
           calls |-> <<"embedding_fn", "search">>]

similar_texts_with_scores(a, text, k, where) ==
  /\ adapter[a].constructed
  /\ LET r == SimilarTextsWithScores(store, adapter[a].collection_name,
                                     adapter[a].embedding_dim, text, k, where) IN
     last' = [NoCall EXCEPT !.op = "similar_texts_with_scores", !.adapter = a,
                !.name = adapter[a].collection_name, !.k = k,
                !.pre = Pre(store, adapter[a].collection_name),
                !.calls = r.calls, !.result = r.result, !.pairs = r.pairs]
  /\ UNCHANGED <<store, adapter>>

\* one call of the caller's program; `reported` is the set of statuses the
\* service may answer get_collection with
Step(reported) ==
  \E a \in Adapters :
    \/ QdrantDB_init(a, reported)
    \/ list_collections(a)
    \/ clear_empty_collections(a)
    \/ \E name \in Names : set_collection(a, name, reported)
    \/ \E name \in Names : create_collection(a, name, reported)
    \/ \E name \in Names : delete_collection(a, name)
    \/ \E documents \in DocSeqs : add_documents(a, documents)
    \/ \E text \in Contents, k \in 1..MaxK, where \in Wheres :
         similar_texts_with_scores(a, text, k, where)

Next == Step(Statuses)
Spec == Init /\ [][Next]_vars

\* the same program against a service that always reports a healthy collection
NextHealthy == Step({"green"})
SpecHealthy == Init /\ [][NextHealthy]_vars

\* ------------------------------------------------------------------- claims
Issued(call) == \E i \in 1..Len(last.calls) : last.calls[i] = call
IssuedNext(call) == \E i \in 1..Len(last'.calls) : last'.calls[i] = call
StoredContents(st, name) == {st[name].points[i].payload.content : i \in DOMAIN st[name].points}

\* C1: add_documents of documents with no active collection set raises
\* ValueError and has made no call to any external collaborator (embedding
\* provider or client).
C1_UnsetNameNoExternalCall ==
  (last.op = "add_documents" /\ last.name = None /\ Len(last.docs) > 0)
    => (last.result = "ValueError" /\ last.calls = <<>>)

\* C2: right after create_collection(name) returns normally the collection
\* exists with zero points and the service reported it healthy; whenever that
\* does not hold the call ended in an AssertionError.
C2_CreateLeavesEmptyHealthy ==
  last.op = "create_collection" =>
    LET post == /\ store[last.name].exists
                /\ PointsCount(store, last.name) = 0
                /\ last.status = "green"
    IN /\ last.result \in {"ok", "AssertionError"}
       /\ last.result = "ok" <=> post

C2_Witness ==
  last.op = "create_collection" /\ last.result = "ok" /\ last.pre > 0

\* C3: clear_empty_collections removes exactly the collections that had zero
\* points, leaves every other collection as it was, and returns the number of
\* collections it removed.
C3_ClearEmptyExact ==
  [][last'.op = "clear_empty_collections" =>
       /\ \A n \in Names :
            store'[n] = IF store[n].exists /\ PointsCount(store, n) = 0
                        THEN NoCollection ELSE store[n]
       /\ last'.n_deletes =
            Cardinality({n \in Names : store[n].exists /\ ~store'[n].exists})]_vars

C3_Witness ==
  /\ last.op = "clear_empty_collections"
  /\ last.n_deletes = 1
  /\ \E n \in Names : store[n].exists /\ PointsCount(store, n) > 0

\* C4: set_collection(name) records name as the active collection; a collection
\* already present is left as it is, an absent one is created empty; no other
\* collection changes.
C4_SetCollectionFrame ==
  [][last'.op = "set_collection" =>
       LET n == last'.name
           a == last'.adapter
       IN /\ adapter'[a].collection_name = n
          /\ store[n].exists => store' = store
          /\ ~store[n].exists => store'[n].exists /\ PointsCount(store', n) = 0
          /\ \A m \in Names \ {n} : store'[m] = store[m]]_vars

C4_Witness ==
  /\ last.op = "set_collection" /\ last.pre > 0
  /\ PointsCount(store, last.name) = last.pre

\* C5: with an active collection set, similar_texts_with_scores returns at most
\* k pairs, and on an active collection that holds no vectors it returns the
\* empty sequence without raising.
C5_AtMostKEmptyNoRaise ==
  (last.op = "similar_texts_with_scores" /\ last.name # None) =>
    /\ Len(last.pairs) <= last.k
    /\ (store[last.name].exists /\ PointsCount(store, last.name) = 0)
         => (last.result = "ok" /\ last.pairs = <<>>)

\* C6 as stated: ingesting documents whose content is already stored in the
\* active collection leaves the collection's point count and contents as
\* they were.
C6_ReingestChangesNothing ==
  [][(/\ last'.op = "add_documents" /\ last'.result = "ok"
      /\ \A i \in 1..Len(last'.docs) :
           last'.docs[i].content \in StoredContents(store, last'.name))
       => store' = store]_vars

\* C6 amended: ingesting documents whose content is already stored adds no
\* point (same ids, same count); each such point then holds the document
\* ingested last with that content, so the contents are unchanged exactly when
\* the documents ingested equal the ones stored.
C6_ReingestOverwrites ==
  [][(/\ last'.op = "add_documents" /\ last'.result = "ok"
      /\ \A i \in 1..Len(last'.docs) :
           last'.docs[i].content \in StoredContents(store, last'.name))
       => LET n == last'.name
              docs == last'.docs
              old == store[n].points
              new == store'[n].points
          IN /\ DOMAIN new = DOMAIN old
             /\ \A m \in Names \ {n} : store'[m] = store[m]
             /\ \A id \in DOMAIN new :
                  LET ix == {i \in 1..Len(docs) : docs[i].content = old[id].payload.content}
                  IN new[id].payload =
                       IF ix = {} THEN old[id].payload
                       ELSE docs[CHOOSE i \in ix : \A j \in ix : j <= i]
             /\ (\A i \in 1..Len(docs) :
                    \E id \in DOMAIN old : old[id].payload = docs[i]) => store' = store]_vars

C6_Witness ==
  /\ last.op = "add_documents" /\ last.result = "ok" /\ Len(last.docs) > 0
  /\ last.pre > 0 /\ PointsCount(store, last.name) = last.pre

C7_PersistsUnlessDeleted ==
  [][\A n \in Names : \A id \in DOMAIN store[n].points :
       (/\ ~(last'.op = "delete_collection" /\ last'.name = n)
        /\ ~(last'.op = "clear_empty_collections" /\ ~store'[n].exists))
         => /\ id \in DOMAIN store'[n].points
            /\ store'[n].points[id].payload.content = store[n].points[id].payload.content]_vars

\* C7 amended: a point stored in a collection stays stored (under the same id,
\* with the same content) over every step that is neither delete_collection on
\* that collection, nor a clear_empty_collections sweep that removes it, nor
\* create_collection on it, called directly or by constructing an adapter
\* whose configuration names that collection.
C7_PersistsUnlessDeletedOrRecreated ==
  [][\A n \in Names : \A id \in DOMAIN store[n].points :
       (/\ ~(last'.op = "delete_collection" /\ last'.name = n)
        /\ ~(last'.op = "clear_empty_collections" /\ ~store'[n].exists)
        /\ ~(last'.op \in {"create_collection", "init"} /\ last'.name = n))
         => /\ id \in DOMAIN store'[n].points
            /\ store'[n].points[id].payload.content = store[n].points[id].payload.content]_vars

C7_Witness ==
  \E n \in Names :
    /\ PointsCount(store, n) > 0
    /\ last.op = "init" /\ last.name \notin {n, None} /\ last.result = "ok"

\* C8: whenever add_documents issues its upsert of documents to an existing
\* active collection, that collection's vector size equals the adapter's embedding
\* dimensionality.
C8_UpsertDimensionMatches ==
  (/\ last.op = "add_documents" /\ Issued("upsert") /\ Len(last.docs) > 0
   /\ store[last.name].exists)
    => store[last.name].dim = adapter[last.adapter].embedding_dim

\* C10: on an adapter object the active collection name changes only in
\* set_collection(name) and create_collection(name), which both set it to
\* name; every other method leaves it as it was, also when the active
\* collection itself is removed.
C10_ActiveNameFrame ==
  [][last'.op # "init" =>
       \A a \in Adapters :
         /\ (last'.op \in {"set_collection", "create_collection"} /\ last'.adapter = a)
              => adapter'[a].collection_name = last'.name
         /\ ~(last'.op \in {"set_collection", "create_collection"} /\ last'.adapter = a)
              => adapter'[a] = adapter[a]]_vars

C10_Witness ==
  /\ last.op \in {"delete_collection", "clear_empty_collections"}
  /\ adapter[last.adapter].collection_name # None
  /\ ~store[adapter[last.adapter].collection_name].exists
  /\ last.pre >= 0 \/ last.n_deletes > 0
====
